---- MODULE Spec2Model ----
(***************************************************************************)
(* Model of src/barilla.py: the Barilla promo-strategy simulator.          *)
(*                                                                         *)
(* The script is a straight-line program.  Its module-level names are the  *)
(* state, and the model takes one step per loop iteration or statement     *)
(* group: the simulation loop (lines 75-108), df = DataFrame(rows) (110),  *)
(* the two pivots (113-114), the two idxmax calls (116-117), the Nash loop *)
(* (119-128) and the "Nash list" report (158-165).                         *)
(*                                                                         *)
(* Money is counted in euro cents (MIN_PRICE = 0.01 EUR = 1).  Python      *)
(* floats are modelled as exact rationals <<num, den>>; the elasticities   *)
(* are drawn from integers so that ** is exact.  The "Category" column of  *)
(* a row is a display label that no computation reads and is left out, as  *)
(* are the plotting and download calls.                                    *)
(***************************************************************************)
EXTENDS Integers, Sequences, FiniteSets, TLC

VARIABLES
    pc,                    \* position in the script
    error,                 \* the exception that ended the script, or None
    base_demand, wholesale_price, cogs, elasticity, cross_elasticity,
    barilla_disc_grid, pl_disc_grid,
    i, j,                  \* positions of the two nested for loops (76-77)
    bar_base, pl_base, bar_price, pl_price, price_ratio, penalty,
    bar_demand, pl_demand,
    rows, df,
    barilla_matrix, pl_matrix,
    barilla_best_response, pl_best_response,
    k,                     \* position of the Nash loop (120)
    nash_points,
    banner                 \* what the "Nash list" section shows

inputs == <<base_demand, wholesale_price, cogs, elasticity, cross_elasticity,
            barilla_disc_grid, pl_disc_grid>>
locals == <<bar_base, pl_base, bar_price, pl_price, price_ratio, penalty,
            bar_demand, pl_demand>>
tables == <<barilla_matrix, pl_matrix>>
responses == <<barilla_best_response, pl_best_response>>
vars == <<pc, error, inputs, i, j, locals, rows, df, tables, responses, k,
          nash_points, banner>>

None == "None"
NaN == <<0, 0>>        \* the float that is no number
NoLabel == -1          \* what idxmax gives when it has nothing to compare

-----------------------------------------------------------------------------
(* Bounds of the model.                                                     *)

MaxGridLen == 3        \* longest discount grid of the full run
MaxCells == 4          \* largest payoff grid handed to the Nash finder alone
MaxProfit == 1         \* profits of such a grid range over 0..MaxProfit

-----------------------------------------------------------------------------
(* Program constants (lines 69-72), in cents and as exact ratios.           *)

PL_BASE_FACTOR == <<97, 100>>
MIN_PRICE == 1
GAP_THRESHOLD == <<105, 100>>
PENALTY == <<7, 10>>

-----------------------------------------------------------------------------
(* Exact rational arithmetic standing for Python float arithmetic.          *)

Abs(x) == IF x < 0 THEN -x ELSE x

RECURSIVE GCD(_, _)
GCD(a, b) == IF b = 0 THEN a ELSE GCD(b, a % b)

\* n / d in lowest terms with a positive denominator (d # 0).
Frac(n, d) ==
    LET g == GCD(Abs(n), Abs(d))
        s == IF d < 0 THEN -1 ELSE 1
    IN  <<(s * n) \div g, (s * d) \div g>>

Whole(n) == <<n, 1>>
One == Whole(1)

FracMul(x, y) ==
    LET a == Frac(x[1], y[2])
        b == Frac(y[1], x[2])
    IN  <<a[1] * b[1], a[2] * b[2]>>

FracDiv(x, y) == FracMul(x, Frac(y[2], y[1]))

FracSub(x, y) == Frac(x[1] * y[2] - y[1] * x[2], x[2] * y[2])

\* x < y, by comparing integer parts and then the remainders (no products).
RECURSIVE FracLess(_, _)
FracLess(x, y) ==
    LET qx == x[1] \div x[2]
        qy == y[1] \div y[2]
        rx == x[1] % x[2]
        ry == y[1] % y[2]
    IN  IF qx # qy THEN qx < qy
        ELSE IF ry = 0 THEN FALSE
        ELSE IF rx = 0 THEN TRUE
        ELSE FracLess(<<y[2], ry>>, <<x[2], rx>>)

RECURSIVE FracPowNat(_, _)
FracPowNat(x, n) == IF n = 0 THEN One ELSE FracMul(x, FracPowNat(x, n - 1))

\* x ** e for an integer-valued exponent e (x # 0 when e < 0).
FracPow(x, e) ==
    IF e >= 0 THEN FracPowNat(x, e) ELSE FracPowNat(Frac(x[2], x[1]), -e)

\* Python's max(a, b): b only when b > a.
FracMax(a, b) == IF FracLess(a, b) THEN b ELSE a

-----------------------------------------------------------------------------
(* One cell of the simulation loop, lines 79-100.                           *)

\* line 79
BarBase(w) == Whole(w)
\* line 80
PLBase(w) == FracMul(Whole(w), PL_BASE_FACTOR)

\* Faulty variant: the price without its floor.
UnclampedPrice(base, disc) == FracSub(base, Whole(disc))

\* lines 83-84: max(MIN_PRICE, base - disc)
TransactionalPrice(base, disc) ==
    FracMax(Whole(MIN_PRICE), FracSub(base, Whole(disc)))

\* line 87: bar_price / pl_price if pl_price > 0 else 1.0
PriceRatio(bp, pp) ==
    IF FracLess(Whole(0), pp) THEN FracDiv(bp, pp) ELSE One

\* Faulty variant: the penalty from the threshold on (>= for >).
PenaltyAtThreshold(ratio) ==
    IF FracLess(ratio, GAP_THRESHOLD) THEN One ELSE PENALTY

\* line 88: PENALTY if price_ratio > GAP_THRESHOLD else 1.0
PenaltyOf(ratio) == IF FracLess(GAP_THRESHOLD, ratio) THEN PENALTY ELSE One

\* lines 91-93
BarDemand(B, bp, bb, pp, pb, e, x, pen) ==
    FracMul(FracMul(FracMul(Whole(B), FracPow(FracDiv(bp, bb), e)),
                    FracPow(FracDiv(pp, pb), x)),
            pen)

\* lines 95-96
PLDemand(B, bp, bb, pp, pb, e, x) ==
    FracMul(FracMul(Whole(B), FracPow(FracDiv(pp, pb), e)),
            FracPow(FracDiv(bp, bb), x))

\* lines 99-100: (price - cogs) * demand
Profit(price, c, demand) == FracMul(FracSub(price, Whole(c)), demand)

\* Faulty variant: the two discount columns exchanged.
RowSwapped(bd, pd, bprofit, pprofit) ==
    [bar_disc |-> pd, pl_disc |-> bd, bar_profit |-> bprofit, pl_profit |-> pprofit]

\* The row appended at lines 102-108.
Row(bd, pd, bprofit, pprofit) ==
    [bar_disc |-> bd, pl_disc |-> pd, bar_profit |-> bprofit, pl_profit |-> pprofit]

-----------------------------------------------------------------------------
(* The simulation loop, lines 75-110.                                       *)

\* One iteration of the loop body for (barilla_disc_grid[i], pl_disc_grid[j]).
\* A zero wholesale price makes bar_price / bar_base (line 91) raise
\* ZeroDivisionError after lines 79-88 have run.
CellStep ==
    /\ pc = "simulate"
    /\ i <= Len(barilla_disc_grid)
    /\ j <= Len(pl_disc_grid)
    /\ LET bd == barilla_disc_grid[i]
           pd == pl_disc_grid[j]
           bb == BarBase(wholesale_price)
           pb == PLBase(wholesale_price)
           bp == TransactionalPrice(bb, bd)
           pp == TransactionalPrice(pb, pd)
           ratio == PriceRatio(bp, pp)
           pen == PenaltyOf(ratio)
       IN  /\ bar_base' = bb
           /\ pl_base' = pb
           /\ bar_price' = bp
           /\ pl_price' = pp
           /\ price_ratio' = ratio
           /\ penalty' = pen
           /\ IF bb[1] = 0
              THEN /\ pc' = "raised"
                   /\ error' = "ZeroDivisionError"
                   /\ UNCHANGED <<bar_demand, pl_demand, rows, i, j>>
              ELSE LET bdem == BarDemand(base_demand, bp, bb, pp, pb,
                                         elasticity, cross_elasticity, pen)
                       pdem == PLDemand(base_demand, bp, bb, pp, pb,
                                        elasticity, cross_elasticity)
                   IN  /\ bar_demand' = bdem
                       /\ pl_demand' = pdem
                       /\ rows' = Append(rows, Row(bd, pd, Profit(bp, cogs, bdem),
                                                   Profit(pp, cogs, pdem)))
                       /\ IF j < Len(pl_disc_grid)
                          THEN /\ j' = j + 1
                               /\ i' = i
                          ELSE /\ j' = 1
                               /\ i' = i + 1
                       /\ UNCHANGED <<pc, error>>
    /\ UNCHANGED <<inputs, df, tables, responses, k, nash_points, banner>>

\* Both loops are exhausted; line 110: df = pd.DataFrame(rows).
SimulateDone ==
    /\ pc = "simulate"
    /\ (i > Len(barilla_disc_grid) \/ Len(pl_disc_grid) = 0)
    /\ df' = rows
    /\ pc' = "pivot"
    /\ UNCHANGED <<error, inputs, i, j, locals, rows, tables, responses, k,
                   nash_points, banner>>

-----------------------------------------------------------------------------
(* Payoff matrices, lines 113-114: DataFrame.pivot.                         *)

RECURSIVE Sorted(_)
Sorted(S) ==
    IF S = {} THEN <<>>
    ELSE LET m == CHOOSE x \in S : \A y \in S : x <= y
         IN  <<m>> \o Sorted(S \ {m})

Range(seq) == {seq[n] : n \in DOMAIN seq}

ColumnValues(frame, col) == {frame[n][col] : n \in DOMAIN frame}

\* Two rows with the same (index, columns) pair make pivot raise ValueError.
HasDuplicates(frame) ==
    \E a, b \in DOMAIN frame :
        /\ a # b
        /\ frame[a].pl_disc = frame[b].pl_disc
        /\ frame[a].bar_disc = frame[b].bar_disc

\* df.pivot(index="Private Label Disc", columns="Barilla Disc", values=...):
\* sorted row and column labels, each cell the value of the row of df that
\* carries its label pair, NaN where df has no such row.
Pivot(frame, values) ==
    [index   |-> Sorted(ColumnValues(frame, "pl_disc")),
     columns |-> Sorted(ColumnValues(frame, "bar_disc")),
     cell    |-> [p \in ColumnValues(frame, "pl_disc") |->
                    [b \in ColumnValues(frame, "bar_disc") |->
                        IF \E n \in DOMAIN frame :
                               frame[n].pl_disc = p /\ frame[n].bar_disc = b
                        THEN frame[CHOOSE n \in DOMAIN frame :
                                   frame[n].pl_disc = p /\ frame[n].bar_disc = b][values]
                        ELSE NaN]]]

\* An empty df has no columns: pivot raises KeyError.
PivotStep ==
    /\ pc = "pivot"
    /\ IF df = <<>>
       THEN /\ pc' = "raised"
            /\ error' = "KeyError"
            /\ UNCHANGED tables
       ELSE IF HasDuplicates(df)
       THEN /\ pc' = "raised"
            /\ error' = "ValueError"
            /\ UNCHANGED tables
       ELSE /\ barilla_matrix' = Pivot(df, "bar_profit")
            /\ pl_matrix' = Pivot(df, "pl_profit")
            /\ pc' = "best_response"
            /\ UNCHANGED error
    /\ UNCHANGED <<inputs, i, j, locals, rows, df, responses, k, nash_points,
                   banner>>

-----------------------------------------------------------------------------
(* Best responses, lines 116-117: idxmax.                                   *)

\* idxmax scans the labels in order, skips NaN and keeps the first maximum:
\* a later label replaces the best one only when its value is strictly larger.
RECURSIVE FirstMaxScan(_, _, _, _)
FirstMaxScan(labels, val, pos, best) ==
    IF pos > Len(labels) THEN best
    ELSE LET l == labels[pos]
         IN  FirstMaxScan(labels, val, pos + 1,
                 IF val[l] = NaN THEN best
                 ELSE IF best = NoLabel THEN l
                 ELSE IF FracLess(val[best], val[l]) THEN l
                 ELSE best)

\* Faulty variant: the last maximum instead of the first.
RECURSIVE LastMaxScan(_, _, _, _)
LastMaxScan(labels, val, pos, best) ==
    IF pos > Len(labels) THEN best
    ELSE LET l == labels[pos]
         IN  LastMaxScan(labels, val, pos + 1,
                 IF val[l] = NaN THEN best
                 ELSE IF best = NoLabel THEN l
                 ELSE IF FracLess(val[l], val[best]) THEN best
                 ELSE l)

IdxMaxLast(labels, val) == LastMaxScan(labels, val, 1, NoLabel)

IdxMax(labels, val) == FirstMaxScan(labels, val, 1, NoLabel)

\* line 116: barilla_matrix.idxmax(axis=1), one Barilla discount per PL row
BarillaBestResponse(matrix) ==
    [p \in Range(matrix.index) |-> IdxMax(matrix.columns, matrix.cell[p])]

\* line 117: pl_matrix.idxmax(axis=0), one PL discount per Barilla column
PLBestResponse(matrix) ==
    [b \in Range(matrix.columns) |->
        IdxMax(matrix.index, [p \in Range(matrix.index) |-> matrix.cell[p][b]])]

\* lines 116-119
BestResponseStep ==
    /\ pc = "best_response"
    /\ barilla_best_response' = BarillaBestResponse(barilla_matrix)
    /\ pl_best_response' = PLBestResponse(pl_matrix)
    /\ nash_points' = <<>>
    /\ k' = 1
    /\ pc' = "nash"
    /\ UNCHANGED <<error, inputs, i, j, locals, rows, df, tables, banner>>

-----------------------------------------------------------------------------
(* The Nash loop, lines 120-128.                                            *)

\* np.isclose(a, b) with its defaults: |a - b| <= 1e-8 + 1e-5 * |b| in euros,
\* that is 1000000 * |a - b| <= 1 + 10 * |b| in cents.
IsClose(a, b) == Abs(a - b) <= (1 + 10 * Abs(b)) \div 1000000

\* Faulty variant: the Barilla discount compared with the PL best response.
NashCandidateWrongSide(pd, bbr, pbr) ==
    IF pd \notin DOMAIN bbr THEN <<>>
    ELSE LET bd == bbr[pd]
         IN  IF bd \notin DOMAIN pbr THEN <<>>
             ELSE IF IsClose(bd, pbr[bd]) THEN <<(<<pd, bd>>)>>
             ELSE <<>>

\* What the iteration for pl_disc appends: one point or nothing.
NashCandidate(pd, bbr, pbr) ==
    IF pd \notin DOMAIN bbr THEN <<>>
    ELSE LET bd == bbr[pd]
         IN  IF bd \notin DOMAIN pbr THEN <<>>
             ELSE IF IsClose(pd, pbr[bd]) THEN <<(<<pd, bd>>)>>
             ELSE <<>>

\* Faulty variant: each point put in front of the list.
NashStepPrepend ==
    /\ pc = "nash"
    /\ k <= Len(pl_disc_grid)
    /\ nash_points' = NashCandidate(pl_disc_grid[k], barilla_best_response,
                                    pl_best_response) \o nash_points
    /\ k' = k + 1
    /\ UNCHANGED <<pc, error, inputs, i, j, locals, rows, df, tables, responses,
                   banner>>

NashStep ==
    /\ pc = "nash"
    /\ k <= Len(pl_disc_grid)
    /\ nash_points' = nash_points \o NashCandidate(pl_disc_grid[k],
                                                   barilla_best_response,
                                                   pl_best_response)
    /\ k' = k + 1
    /\ UNCHANGED <<pc, error, inputs, i, j, locals, rows, df, tables, responses,
                   banner>>

\* The loop is exhausted; the script goes on to the page (lines 131-155 only
\* draw) and reaches the Nash list.
NashDone ==
    /\ pc = "nash"
    /\ k > Len(pl_disc_grid)
    /\ pc' = "report"
    /\ UNCHANGED <<error, inputs, i, j, locals, rows, df, tables, responses, k,
                   nash_points, banner>>

-----------------------------------------------------------------------------
(* The Nash list, lines 158-165.                                            *)

\* line 161: the row of df for a point; .iloc[0] raises IndexError without one.
HasRow(frame, point) ==
    \E n \in DOMAIN frame :
        frame[n].pl_disc = point[1] /\ frame[n].bar_disc = point[2]

Report ==
    /\ pc = "report"
    /\ IF nash_points # <<>>
       THEN IF \A n \in DOMAIN nash_points : HasRow(df, nash_points[n])
            THEN /\ banner' = "info"
                 /\ pc' = "done"
                 /\ UNCHANGED error
            ELSE /\ pc' = "raised"
                 /\ error' = "IndexError"
                 /\ UNCHANGED banner
       ELSE /\ banner' = "warning"
            /\ pc' = "done"
            /\ UNCHANGED error
    /\ UNCHANGED <<inputs, i, j, locals, rows, df, tables, responses, k,
                   nash_points>>

-----------------------------------------------------------------------------
(* Inputs.  The sidebar (lines 46-66) hands the simulation its parameters   *)
(* and the two discount grids; the model draws them from small sets.        *)

BaseDemands == {18}                \* thousands of packs
WholesalePrices == {100, 200}      \* cents
CogsValues == {55}                 \* cents
Elasticities == {-1, -2}
CrossElasticities == {1}
DiscValues == {0, 5, 77, 79, 150}  \* cents

\* Strictly increasing grids of 1..maxlen values of S.
GridsOver(S, maxlen) ==
    {Sorted(T) : T \in {U \in SUBSET S : U # {} /\ Cardinality(U) <= maxlen}}

\* Names the script has not assigned yet.
Unassigned ==
    /\ error = None
    /\ bar_base = None /\ pl_base = None /\ bar_price = None /\ pl_price = None
    /\ price_ratio = None /\ penalty = None
    /\ bar_demand = None /\ pl_demand = None
    /\ barilla_matrix = None /\ pl_matrix = None
    /\ barilla_best_response = None /\ pl_best_response = None
    /\ k = 0
    /\ nash_points = None
    /\ banner = None

\* The state at line 75, for parameters that meet their preconditions.
Init ==
    /\ pc = "simulate"
    /\ base_demand \in BaseDemands
    /\ wholesale_price \in WholesalePrices
    /\ cogs \in CogsValues
    /\ elasticity \in Elasticities
    /\ cross_elasticity \in CrossElasticities
    /\ barilla_disc_grid \in GridsOver(DiscValues, MaxGridLen)
    /\ pl_disc_grid \in GridsOver(DiscValues, MaxGridLen)
    /\ i = 1 /\ j = 1
    /\ rows = <<>>
    /\ df = None
    /\ Unassigned

Next ==
    \/ CellStep
    \/ SimulateDone
    \/ PivotStep
    \/ BestResponseStep
    \/ NashStep
    \/ NashDone
    \/ Report

Spec == Init /\ [][Next]_vars

-----------------------------------------------------------------------------
(* The same script on parameters nothing has validated: a wholesale price   *)
(* that is not positive, a grid that is empty.                              *)

AnyWholesalePrices == {-100, 0, 100}
AnyGrids == GridsOver({0, 5, 150}, MaxGridLen) \cup {<<>>}

ValidParameters ==
    /\ base_demand > 0
    /\ wholesale_price > 0
    /\ cogs >= 0
    /\ elasticity < 0
    /\ cross_elasticity >= 0
    /\ barilla_disc_grid # <<>>
    /\ pl_disc_grid # <<>>

InitAny ==
    /\ pc = "simulate"
    /\ base_demand \in BaseDemands
    /\ wholesale_price \in AnyWholesalePrices
    /\ cogs \in CogsValues
    /\ elasticity \in Elasticities
    /\ cross_elasticity \in CrossElasticities
    /\ barilla_disc_grid \in AnyGrids
    /\ pl_disc_grid \in AnyGrids
    /\ i = 1 /\ j = 1
    /\ rows = <<>>
    /\ df = None
    /\ Unassigned

SpecAny == InitAny /\ [][Next]_vars

-----------------------------------------------------------------------------
(* The Nash finder (lines 113-128, 158-165) as a function of the payoff     *)
(* grid: df holds one row per pair of the two grids, with any profits.      *)

NashDiscValues == {0, 100000, 100001}   \* cents

\* The rows of a full grid in the order of the simulation loop.
GridRows(bg, pg, bprofit, pprofit) ==
    [n \in 1..(Len(bg) * Len(pg)) |->
        Row(bg[((n - 1) \div Len(pg)) + 1], pg[((n - 1) % Len(pg)) + 1],
            Whole(bprofit[n]), Whole(pprofit[n]))]

InitNash ==
    /\ pc = "pivot"
    /\ base_demand = None /\ wholesale_price = None /\ cogs = None
    /\ elasticity = None /\ cross_elasticity = None
    /\ barilla_disc_grid \in GridsOver(NashDiscValues, MaxCells)
    /\ pl_disc_grid \in GridsOver(NashDiscValues, MaxCells)
    /\ Len(barilla_disc_grid) * Len(pl_disc_grid) <= MaxCells
    /\ i = Len(barilla_disc_grid) + 1 /\ j = 1
    /\ \E bprofit, pprofit \in
             [1..(Len(barilla_disc_grid) * Len(pl_disc_grid)) -> 0..MaxProfit] :
          /\ rows = GridRows(barilla_disc_grid, pl_disc_grid, bprofit, pprofit)
          /\ df = rows
    /\ Unassigned

NextNash ==
    \/ PivotStep
    \/ BestResponseStep
    \/ NashStep
    \/ NashDone
    \/ Report

SpecNash == InitNash /\ [][NextNash]_vars

-----------------------------------------------------------------------------
(* Vocabulary of the properties.                                            *)

BarLabels == Range(barilla_disc_grid)
PLLabels == Range(pl_disc_grid)
Lowest(S) == CHOOSE x \in S : \A y \in S : x <= y
LastRow == rows[Len(rows)]
CellComputed == pc = "simulate" /\ rows # <<>>
MatricesBuilt == pc \in {"best_response", "nash", "report", "done"}
ResponsesBuilt == pc \in {"nash", "report", "done"}
Searched == pc \in {"report", "done"}

\* The Barilla discounts that attain the largest Barilla profit in PL row d.
BarillaMaximisers(d) ==
    {b \in BarLabels : \A b2 \in BarLabels :
        ~FracLess(barilla_matrix.cell[d][b], barilla_matrix.cell[d][b2])}

\* The PL discounts that attain the largest PL profit in Barilla column b.
PLMaximisers(b) ==
    {d \in PLLabels : \A d2 \in PLLabels :
        ~FracLess(pl_matrix.cell[d][b], pl_matrix.cell[d2][b])}

\* Neither player gains by changing its own discount alone.
IsEquilibrium(d, b) == b \in BarillaMaximisers(d) /\ d \in PLMaximisers(b)

-----------------------------------------------------------------------------
(* C1.  Every point of nash_points is a mutual best response: no Barilla   *)
(* discount earns Barilla strictly more in the point's PL row, and no PL   *)
(* discount earns the private label strictly more in its Barilla column.   *)
NashSound ==
    ResponsesBuilt =>
        \A n \in DOMAIN nash_points :
            IsEquilibrium(nash_points[n][1], nash_points[n][2])

-----------------------------------------------------------------------------
(* C2.  The simulation loop appends one row per pair of the two grids:     *)
(* while it runs it has appended the pairs before position (i, j), and df  *)
(* holds exactly m * n rows, one for each pair of the Cartesian product,   *)
(* each carrying the profits computed from its own pair of discounts; the  *)
(* two matrices store those profits under that pair.                       *)
ProfitsOf(bd, pd) ==
    LET bb == BarBase(wholesale_price)
        pb == PLBase(wholesale_price)
        bp == TransactionalPrice(bb, bd)
        pp == TransactionalPrice(pb, pd)
        pen == PenaltyOf(PriceRatio(bp, pp))
    IN  <<Profit(bp, cogs, BarDemand(base_demand, bp, bb, pp, pb, elasticity,
                                     cross_elasticity, pen)),
          Profit(pp, cogs, PLDemand(base_demand, bp, bb, pp, pb, elasticity,
                                    cross_elasticity))>>

GridComplete ==
    /\ pc = "simulate" =>
           Len(rows) = (i - 1) * Len(pl_disc_grid) + (j - 1)
    /\ pc # "simulate" =>
           /\ Len(df) = Len(barilla_disc_grid) * Len(pl_disc_grid)
           /\ \A b \in BarLabels : \A d \in PLLabels :
                  /\ Cardinality({n \in DOMAIN df :
                         df[n].bar_disc = b /\ df[n].pl_disc = d}) = 1
                  /\ \A n \in DOMAIN df :
                         (df[n].bar_disc = b /\ df[n].pl_disc = d) =>
                             /\ df[n].bar_profit = ProfitsOf(b, d)[1]
                             /\ df[n].pl_profit = ProfitsOf(b, d)[2]
           /\ \A n \in DOMAIN df :
                  df[n].bar_disc \in BarLabels /\ df[n].pl_disc \in PLLabels
    /\ MatricesBuilt =>
           \A b \in BarLabels : \A d \in PLLabels :
               /\ barilla_matrix.cell[d][b] = ProfitsOf(b, d)[1]
               /\ pl_matrix.cell[d][b] = ProfitsOf(b, d)[2]

\* A finished run over grids of different sizes whose cells differ.
GridCompleteWitness ==
    /\ pc = "done"
    /\ Len(barilla_disc_grid) = 2
    /\ Len(pl_disc_grid) = 3
    /\ Len(df) = 6
    /\ df[2].bar_profit # df[4].bar_profit

-----------------------------------------------------------------------------
(* C3.  Each best response is the lowest discount among those that attain  *)
(* the maximum: the lowest Barilla discount of a PL row's maximisers, the  *)
(* lowest PL discount of a Barilla column's maximisers.                    *)
LowestTieBreak ==
    ResponsesBuilt =>
        /\ DOMAIN barilla_best_response = PLLabels
        /\ DOMAIN pl_best_response = BarLabels
        /\ \A d \in PLLabels :
               barilla_best_response[d] = Lowest(BarillaMaximisers(d))
        /\ \A b \in BarLabels :
               pl_best_response[b] = Lowest(PLMaximisers(b))

\* A row and a column that both hold a tied maximum.
LowestTieBreakWitness ==
    /\ ResponsesBuilt
    /\ \E d \in PLLabels : Cardinality(BarillaMaximisers(d)) > 1
    /\ \E b \in BarLabels : Cardinality(PLMaximisers(b)) > 1

-----------------------------------------------------------------------------
(* C4.  Parameters that violate a precondition are rejected before any     *)
(* cell is computed: no row is appended, no matrix and no Nash set built.  *)
InvalidParameterRejected ==
    ~ValidParameters =>
        /\ rows = <<>>
        /\ pc \notin {"best_response", "nash", "report", "done"}

-----------------------------------------------------------------------------
(* C5.  In every cell both transactional prices are                        *)
(* max(MIN_PRICE, base - discount), hence at least MIN_PRICE and positive, *)
(* and the price ratio is bar_price / pl_price: its fallback is not taken. *)
Clamped(base, disc) ==
    LET net == FracSub(base, Whole(disc))
    IN  IF FracLess(Whole(MIN_PRICE), net) THEN net ELSE Whole(MIN_PRICE)

PriceClamp ==
    CellComputed =>
        /\ bar_base = Whole(wholesale_price)
        /\ bar_price = Clamped(bar_base, LastRow.bar_disc)
        /\ pl_price = Clamped(pl_base, LastRow.pl_disc)
        /\ ~FracLess(bar_price, Whole(MIN_PRICE))
        /\ ~FracLess(pl_price, Whole(MIN_PRICE))
        /\ pl_price[1] > 0 /\ pl_price[2] > 0
        /\ price_ratio[1] * pl_price[1] * bar_price[2]
               = bar_price[1] * price_ratio[2] * pl_price[2]

\* A cell whose two discounts both exceed the base prices.
PriceClampWitness ==
    /\ CellComputed
    /\ FracLess(FracSub(bar_base, Whole(LastRow.bar_disc)), Whole(0))
    /\ FracLess(FracSub(pl_base, Whole(LastRow.pl_disc)), Whole(0))
    /\ bar_price = Whole(MIN_PRICE)
    /\ pl_price = Whole(MIN_PRICE)

-----------------------------------------------------------------------------
(* C6.  Barilla's demand carries the factor PENALTY exactly when            *)
(* bar_price / pl_price is strictly above GAP_THRESHOLD, and the private   *)
(* label's demand and profit never carry it.                               *)
OverGap ==
    bar_price[1] * pl_price[2] * GAP_THRESHOLD[2]
        > GAP_THRESHOLD[1] * pl_price[1] * bar_price[2]

PlainDemand(own, ownBase, other, otherBase) ==
    FracMul(FracMul(Whole(base_demand),
                    FracPow(FracDiv(own, ownBase), elasticity)),
            FracPow(FracDiv(other, otherBase), cross_elasticity))

AsymmetricPenalty ==
    CellComputed =>
        /\ penalty = IF OverGap THEN PENALTY ELSE One
        /\ bar_demand =
               IF OverGap
               THEN FracMul(PlainDemand(bar_price, bar_base, pl_price, pl_base),
                            PENALTY)
               ELSE PlainDemand(bar_price, bar_base, pl_price, pl_base)
        /\ pl_demand = PlainDemand(pl_price, pl_base, bar_price, bar_base)
        /\ LastRow.bar_profit = FracMul(FracSub(bar_price, Whole(cogs)), bar_demand)
        /\ LastRow.pl_profit = FracMul(FracSub(pl_price, Whole(cogs)), pl_demand)

\* A cell whose price ratio equals the threshold, left unpenalised, in a run
\* that has also penalised a cell.
AsymmetricPenaltyWitness ==
    /\ CellComputed
    /\ ~FracLess(price_ratio, GAP_THRESHOLD)
    /\ ~FracLess(GAP_THRESHOLD, price_ratio)
    /\ penalty = One
    /\ bar_demand = PlainDemand(bar_price, bar_base, pl_price, pl_base)
    /\ \E n \in DOMAIN rows :
           LET bp == TransactionalPrice(bar_base, rows[n].bar_disc)
               pp == TransactionalPrice(pl_base, rows[n].pl_disc)
           IN  FracLess(GAP_THRESHOLD, FracDiv(bp, pp))

-----------------------------------------------------------------------------
(* C7.  The Nash search never raises on a fully built grid, and when no PL *)
(* discount d has PLBestResponse[BarillaBestResponse[d]] = d the script    *)
(* ends with an empty nash_points, shown as the warning banner.            *)
NoFixedPoint ==
    \A d \in PLLabels : pl_best_response[barilla_best_response[d]] # d

EmptyNashIsNormal ==
    /\ pc # "raised"
    /\ error = None
    /\ pc = "done" =>
           (NoFixedPoint => (nash_points = <<>> /\ banner = "warning"))

-----------------------------------------------------------------------------
(* C8.  nash_points is built in ascending order of the PL discount: its    *)
(* points have strictly increasing PL discounts, all among the grid values *)
(* visited so far, and the finished sequence is the one the payoff grid    *)
(* determines, so equal inputs give equal sequences.                       *)
Emits(d) ==
    IsClose(d, Lowest(PLMaximisers(Lowest(BarillaMaximisers(d)))))

ExpectedNashPoints ==
    LET ds == SelectSeq(pl_disc_grid, Emits)
    IN  [n \in 1..Len(ds) |-> <<ds[n], Lowest(BarillaMaximisers(ds[n]))>>]

NashOrdered ==
    ResponsesBuilt =>
        /\ \A a, b \in DOMAIN nash_points :
               a < b => nash_points[a][1] < nash_points[b][1]
        /\ \A n \in DOMAIN nash_points :
               \E q \in 1..(k - 1) : nash_points[n][1] = pl_disc_grid[q]
        /\ Searched => nash_points = ExpectedNashPoints

\* A finished search that emitted two points.
NashOrderedWitness ==
    /\ pc = "done"
    /\ Len(nash_points) >= 2

-----------------------------------------------------------------------------
(* C9 as stated.  Every cell at which neither player can gain by changing  *)
(* its own discount is in nash_points, tied maxima included.               *)
NashComplete ==
    Searched =>
        \A d \in PLLabels : \A b \in BarLabels :
            IsEquilibrium(d, b) => <<d, b>> \in Range(nash_points)

(* C9 as amended.  Every cell (d, b) in which b is the lowest Barilla      *)
(* discount attaining the maximum of row d and d is the lowest PL discount *)
(* attaining the maximum of column b is in nash_points.                    *)
NashCompleteLowest ==
    Searched =>
        \A d \in PLLabels : \A b \in BarLabels :
            (b = Lowest(BarillaMaximisers(d)) /\ d = Lowest(PLMaximisers(b)))
                => <<d, b>> \in Range(nash_points)

\* A finished search that reports the lowest equilibrium of a grid with ties
\* and leaves out another equilibrium of the same grid.
NashCompleteLowestWitness ==
    /\ pc = "done"
    /\ \E d \in PLLabels : \E b \in BarLabels :
           /\ b = Lowest(BarillaMaximisers(d))
           /\ d = Lowest(PLMaximisers(b))
           /\ <<d, b>> \in Range(nash_points)
    /\ \E d \in PLLabels : \E b \in BarLabels :
           /\ IsEquilibrium(d, b)
           /\ <<d, b>> \notin Range(nash_points)

-----------------------------------------------------------------------------
(* C10.  No two points of nash_points share a PL discount, no two share a  *)
(* Barilla discount, and there are at most min(|barilla grid|, |PL grid|)  *)
(* points.                                                                 *)
NashUniquePerStrategy ==
    ResponsesBuilt =>
        /\ \A a, b \in DOMAIN nash_points :
               a # b => /\ nash_points[a][1] # nash_points[b][1]
                        /\ nash_points[a][2] # nash_points[b][2]
        /\ Len(nash_points) <= Len(barilla_disc_grid)
        /\ Len(nash_points) <= Len(pl_disc_grid)

-----------------------------------------------------------------------------
(* What remains of C1, C7 and C10 on PL grids whose values np.isclose can  *)
(* tell apart.                                                             *)
Separated ==
    \A d, d2 \in PLLabels : d # d2 => ~IsClose(d, d2)

HoldsWhenSeparated ==
    Separated => NashSound /\ EmptyNashIsNormal /\ NashUniquePerStrategy

====
